---- MODULE Spec2Model ----
(***************************************************************************)
(* A model of detect_pd.py, the plausible-deniability detector: the        *)
(* sentence segmenter, the pattern scorer and the command line driver.     *)
(*                                                                         *)
(* Text is a sequence of one-character strings.  Offsets are 0-based and   *)
(* half-open, as in Python.  Scores, weights, boosts and thresholds are    *)
(* integers counting thousandths (0.6 is 600); round(score, 2) rounds to   *)
(* a multiple of 10.  A regular expression of the pattern library is a     *)
(* literal string, searched case-insensitively.                            *)
(***************************************************************************)
EXTENDS Integers, Sequences, FiniteSets, TLC

VARIABLES
    args,       \* the parsed command line: fmt, threshold, inp
    patfile,    \* the pattern file: its state on disk and its document
    input,      \* the content of the input file: a sequence of lines
    pc,         \* the position of main()
    cfg,        \* the compiled configuration
    threshold,  \* the active threshold
    fmt,        \* the input format main() settled on
    pos,        \* jsonl: the number of input lines consumed by iter_jsonl
    line_no,    \* jsonl: main()'s line counter
    doc_id,     \* the doc_id of the document being emitted
    text,       \* the text handed to detect_sentences
    offsets,    \* detect_sentences: the list of (start, end, sentence)
    scored,     \* detect_sentences: matched and score of every sentence
    flagged,    \* the list detect_sentences returned
    sid,        \* the number of records written for the current document
    sink,       \* the output sink: "unopened", "open" or "closed"
    out         \* the records written to the output sink, in order

vars == <<args, patfile, input, pc, cfg, threshold, fmt, pos, line_no,
          doc_id, text, offsets, scored, flagged, sid, sink, out>>

----------------------------------------------------------------------------
(* Characters *)

UpperSeq == <<"A","B","C","D","E","F","G","H","I","J","K","L","M",
              "N","O","P","Q","R","S","T","U","V","W","X","Y","Z">>
LowerSeq == <<"a","b","c","d","e","f","g","h","i","j","k","l","m",
              "n","o","p","q","r","s","t","u","v","w","x","y","z">>
DigitSeq == <<"0","1","2","3","4","5","6","7","8","9">>

Range(s) == {s[i] : i \in DOMAIN s}

UpperChars == Range(UpperSeq)
LowerChars == Range(LowerSeq)
DigitChars == Range(DigitSeq)

\* The characters str.strip() removes and \s matches.
Whitespace == {" ", "\t", "\n", "\r"}

IsSpace(c) == c \in Whitespace

\* \w of the re module: letters, digits and the underscore.
IsWord(c) == c \in UpperChars \cup LowerChars \cup DigitChars \cup {"_"}

\* str.lower() of one character.
LowerChar(c) ==
    IF c \in UpperChars
    THEN LowerSeq[CHOOSE i \in DOMAIN UpperSeq : UpperSeq[i] = c]
    ELSE c

\* str.lower()
Lower(s) == [i \in DOMAIN s |-> LowerChar(s[i])]

\* The characters of the model in ascending code point order: the order
\* sorted() compares strings by.
CodeOrder == <<"\t", "\n", "\r", " ", "!", "\"", "'", "(", ")", ",", ".">>
             \o DigitSeq \o <<":", "?">> \o UpperSeq
             \o <<"[", "]", "_">> \o LowerSeq \o <<"{", "}">>

Code(c) == CHOOSE i \in DOMAIN CodeOrder : CodeOrder[i] = c

Min(S) == CHOOSE x \in S : \A y \in S : x <= y
Max(S) == CHOOSE x \in S : \A y \in S : x >= y

----------------------------------------------------------------------------
(* Strings *)

RECURSIVE LStrip(_)
LStrip(s) == IF s # <<>> /\ IsSpace(Head(s)) THEN LStrip(Tail(s)) ELSE s

RECURSIVE RStrip(_)
RStrip(s) ==
    IF s # <<>> /\ IsSpace(s[Len(s)])
    THEN RStrip(SubSeq(s, 1, Len(s) - 1))
    ELSE s

\* str.strip()
Strip(s) == RStrip(LStrip(s))

\* text[a:b] for 0 <= a, 0 <= b
Slice(s, a, b) == SubSeq(s, a + 1, IF b < Len(s) THEN b ELSE Len(s))

\* str.find(sub, start): the lowest index >= start where sub occurs, or -1
FindFromZero(s, sub, start) ==
    LET at == {i \in 0 .. (Len(s) - Len(sub)) : Slice(s, i, i + Len(sub)) = sub}
    IN  IF at = {} THEN -1 ELSE Min(at)

FindPastCursor(s, sub, start) ==
    LET at == {i \in (start + 1) .. (Len(s) - Len(sub)) :
                   Slice(s, i, i + Len(sub)) = sub}
    IN  IF at = {} THEN -1 ELSE Min(at)

Find(s, sub, start) ==
    LET at == {i \in start .. (Len(s) - Len(sub)) :
                   Slice(s, i, i + Len(sub)) = sub}
    IN  IF at = {} THEN -1 ELSE Min(at)

\* str.endswith(c) for a one-character c
EndsWith(s, c) == s # <<>> /\ s[Len(s)] = c

----------------------------------------------------------------------------
(* compile_cfg: the sentence boundary _sent_split,                         *)
(*     (?<=[.!?])\s+(?=[A-Z0-9""(\[])                                      *)

SentEnd == {".", "!", "?"}

BoundaryStartNoBracket == UpperChars \cup DigitChars \cup {"\"", "("}

BoundaryStart == UpperChars \cup DigitChars \cup {"\"", "(", "["}

\* The end (1-based, exclusive) of the match of _sent_split that starts at
\* the 1-based position i of t, or 0 when there is none: the lookbehind, a
\* greedy whitespace run that backtracks, and the lookahead.
SentSplitMatchEnd(t, i) ==
    LET ends == {j \in (i + 1) .. Len(t) :
                    /\ \A k \in i .. (j - 1) : IsSpace(t[k])
                    /\ t[j] \in BoundaryStart}
    IN  IF i > 1 /\ t[i - 1] \in SentEnd /\ ends # {} THEN Max(ends) ELSE 0

\* _sent_split.split(t): last is the 1-based start of the piece being
\* collected, p the position the scan for the next match is at.
RECURSIVE SplitFrom(_, _, _)
SplitFrom(t, last, p) ==
    IF p > Len(t)
    THEN <<SubSeq(t, last, Len(t))>>
    ELSE LET e == SentSplitMatchEnd(t, p)
         IN  IF e = 0
             THEN SplitFrom(t, last, p + 1)
             ELSE <<SubSeq(t, last, p - 1)>> \o SplitFrom(t, e, e)

SplitNever(t) == <<t>>

SentSplit(t) == SplitFrom(t, 1, 1)

----------------------------------------------------------------------------
(* detect_sentences: segmentation *)

\* The loop over the fragments: start is the cursor into the original text.
RECURSIVE LocateParts(_, _, _)
LocateParts(txt, parts, start) ==
    IF parts = <<>>
    THEN <<>>
    ELSE LET s == Strip(Head(parts))
         IN  IF s = <<>>
             THEN LocateParts(txt, Tail(parts), start)
             ELSE LET found == Find(txt, s, start)
                      idx   == IF found = -1 THEN start ELSE found
                  IN  <<[start |-> idx, end |-> idx + Len(s), sent |-> s,
                         found |-> found]>>
                      \o LocateParts(txt, Tail(parts), idx + Len(s))

SentenceOffsetsInTrimmed(txt) ==
    LET t == Strip(txt)
    IN  IF t = <<>> THEN <<>> ELSE LocateParts(t, SentSplit(t), 0)

SentenceOffsets(txt) ==
    LET t == Strip(txt)
    IN  IF t = <<>> THEN <<>> ELSE LocateParts(txt, SentSplit(t), 0)

----------------------------------------------------------------------------
(* detect_sentences: scoring *)

\* The number of positions of s where the literal rx occurs, case ignored.
Occurrences(rx, s) ==
    Cardinality({i \in 0 .. (Len(s) - Len(rx)) :
                    Slice(Lower(s), i, i + Len(rx)) = Lower(rx)})

\* compiled.search(s) of a literal rx compiled with re.I
RxSearch(rx, s) == Find(Lower(s), Lower(rx), 0) # -1

\* What one matching pattern adds to the score.
WeightPerOccurrence(p, sent_lc) == p.weight * Occurrences(p.rx, sent_lc)

WeightAdded(p, sent_lc) == p.weight

\* The loop over cfg["_compiled_patterns"], in declaration order.
RECURSIVE MatchLoop(_, _, _, _)
MatchLoop(pats, sent_lc, matched, score) ==
    IF pats = <<>>
    THEN [matched |-> matched, score |-> score]
    ELSE LET p == Head(pats)
         IN  IF RxSearch(p.rx, sent_lc)
             THEN MatchLoop(Tail(pats), sent_lc,
                            Append(matched, [id |-> p.id, label |-> p.label]),
                            score + WeightAdded(p, sent_lc))
             ELSE MatchLoop(Tail(pats), sent_lc, matched, score)

\* dict.get(key, default)
Get(d, key, default) == IF key \in DOMAIN d THEN d[key] ELSE default

DefaultBoost == 0
DefaultMaxScore == 1000
DefaultThreshold == 500

\* _claimy_rx is None for an empty list, else the alternation of the words,
\* compiled with re.I and searched in the sentence.
ClaimyApplies(c, sent) ==
    /\ c.claimy_words # <<>>
    /\ \E i \in DOMAIN c.claimy_words : RxSearch(c.claimy_words[i], sent)

\* \b after the first n characters of s
WordBoundaryAfter(s, n) ==
    LET before == n >= 1 /\ IsWord(s[n])
        after  == n < Len(s) /\ IsWord(s[n + 1])
    IN  before # after

\* _rhet_q_rx, ^(?:stems)\b compiled with re.I, searched in the sentence.
RhetRxSearch(c, sent) ==
    \E i \in DOMAIN c.rhet_question_stems :
        LET stem == c.rhet_question_stems[i]
        IN  /\ Len(stem) <= Len(sent)
            /\ Lower(SubSeq(sent, 1, Len(stem))) = Lower(stem)
            /\ WordBoundaryAfter(sent, Len(stem))

RhetApplies(c, sent) ==
    /\ EndsWith(Strip(sent), "?")
    /\ c.rhet_question_stems # <<>>
    /\ RhetRxSearch(c, sent)

\* min(max_score, score)
Capped(max_score, score) == IF max_score < score THEN max_score ELSE score

\* matched and the score of one sentence before the emission test.
ScoreSentence(c, sent) ==
    LET m  == MatchLoop(c.patterns, Lower(sent), <<>>, 0)
        s1 == m.score
              + (IF ClaimyApplies(c, sent)
                 THEN Get(c.boosts, "claiminess", DefaultBoost) ELSE 0)
        s2 == s1
              + (IF RhetApplies(c, sent)
                 THEN Get(c.boosts, "rhetorical_question", DefaultBoost) ELSE 0)
    IN  [matched |-> m.matched,
         score   |-> Capped(Get(c.boosts, "max_score", DefaultMaxScore), s2)]

\* if matched and score >= threshold
EmitsOnScoreAlone(matched, score, thr) == score >= thr

Emits(matched, score, thr) == matched # <<>> /\ score >= thr

\* round(score, 2).  A score halfway between two hundredths goes the way
\* its binary double lies, which the thousandths do not determine: up says
\* which way.
Round2(score, up) ==
    LET q == score \div 10
        r == score % 10
    IN  IF r < 5 THEN 10 * q
        ELSE IF r > 5 THEN 10 * (q + 1)
        ELSE IF up THEN 10 * (q + 1) ELSE 10 * q

\* a < b for strings, as Python compares them: by code point, a proper
\* prefix first.
RECURSIVE LexLess(_, _)
LexLess(a, b) ==
    IF b = <<>> THEN FALSE
    ELSE IF a = <<>> THEN TRUE
    ELSE IF Head(a) # Head(b) THEN Code(Head(a)) < Code(Head(b))
    ELSE LexLess(Tail(a), Tail(b))

\* sorted(S) for a set of strings
RECURSIVE SortedSet(_)
SortedSet(S) ==
    IF S = {} THEN <<>>
    ELSE LET least == CHOOSE a \in S : \A b \in S \ {a} : LexLess(a, b)
         IN  <<least>> \o SortedSet(S \ {least})

LabelsInMatchOrder(matched) == [i \in DOMAIN matched |-> matched[i].label]

\* sorted({m["label"] for m in matched})
Labels(matched) == SortedSet({matched[i].label : i \in DOMAIN matched})

\* The scoring loop's view of every sentence of offsets.
ScoreAll(c, offs) == [i \in DOMAIN offs |-> ScoreSentence(c, offs[i].sent)]

\* The scoring loop: the records appended to results.
RECURSIVE Results(_, _, _, _)
Results(c, offs, thr, up) ==
    IF offs = <<>>
    THEN <<>>
    ELSE LET o == Head(offs)
             s == ScoreSentence(c, o.sent)
         IN  (IF Emits(s.matched, s.score, thr)
              THEN <<[span |-> [start |-> o.start, end |-> o.end],
                      sentence |-> o.sent,
                      score |-> Round2(s.score, up),
                      labels |-> Labels(s.matched),
                      matched_patterns |-> s.matched]>>
              ELSE <<>>)
             \o Results(c, Tail(offs), thr, up)

DetectSentences(txt, c, thr, up) == Results(c, SentenceOffsets(txt), thr, up)

----------------------------------------------------------------------------
(* I/O helpers.  The input is a sequence of lines.  A line is either raw   *)
(* characters, [kind |-> "raw", src |-> ...], or the source of a JSON      *)
(* object, [kind |-> "obj", fields |-> ...], whose fields map a name to    *)
(* [str |-> TRUE, val |-> characters] or to a value that is no string.     *)

TrueSeq  == <<"t", "r", "u", "e">>
FalseSeq == <<"f", "a", "l", "s", "e">>
NullSeq  == <<"n", "u", "l", "l">>

\* json.loads succeeds on raw characters: a number, a string or a literal.
IsJsonScalar(src) ==
    LET s == Strip(src)
    IN  \/ /\ s # <<>>
           /\ \A i \in DOMAIN s : s[i] \in DigitChars
           /\ (Len(s) = 1 \/ s[1] # "0")
        \/ /\ Len(s) >= 2
           /\ s[1] = "\"" /\ s[Len(s)] = "\""
           /\ \A i \in 2 .. (Len(s) - 1) : s[i] \notin {"\"", "\t", "\n", "\r"}
        \/ s \in {TrueSeq, FalseSeq, NullSeq}

IsBlank(line) == line.kind = "raw" /\ Strip(line.src) = <<>>

\* json.loads(line) does not raise
Parses(line) == line.kind = "obj" \/ IsJsonScalar(line.src)

\* raw.splitlines() joined again: the content of a file of raw lines
RECURSIVE JoinLines(_)
JoinLines(lines) ==
    IF lines = <<>> THEN <<>>
    ELSE IF Len(lines) = 1 THEN Head(lines).src
    ELSE Head(lines).src \o <<"\n">> \o JoinLines(Tail(lines))

\* The source line of a JSON object: what json.loads reads the fields from
JsonValue(v) == IF v.str THEN <<"\"">> \o v.val \o <<"\"">> ELSE <<"7">>

JsonSrc(fields) ==
    LET t == IF "text" \in DOMAIN fields
             THEN <<"\"", "t", "e", "x", "t", "\"", ":", " ">>
                  \o JsonValue(fields["text"])
             ELSE <<>>
        d == IF "doc_id" \in DOMAIN fields
             THEN <<"\"", "d", "o", "c", "_", "i", "d", "\"", ":", " ">>
                  \o JsonValue(fields["doc_id"])
             ELSE <<>>
        sep == IF t # <<>> /\ d # <<>> THEN <<",", " ">> ELSE <<>>
    IN  <<"{">> \o t \o sep \o d \o <<"}">>

\* The number of characters main() hands to is_probably_jsonl: raw[:2000]
SampleLen == 2000

\* The offset in the file of the first character of line i
RECURSIVE LineStart(_, _)
LineStart(lines, i) ==
    IF i = 1 THEN 0
    ELSE LineStart(lines, i - 1) + Len(lines[i - 1].src) + 1

\* is_probably_jsonl without the strip of the sample: the first line of
\* the sample parses
FirstLineParses(lines) ==
    /\ lines # <<>>
    /\ ~IsBlank(lines[1])
    /\ IF SampleLen >= Len(lines[1].src)
       THEN Parses(lines[1])
       ELSE /\ lines[1].kind = "raw"
            /\ IsJsonScalar(SubSeq(lines[1].src, 1, SampleLen))

\* is_probably_jsonl(raw[:2000]): the first line of the stripped sample
\* parses.  A line the sample cuts short is parsed as far as it is there;
\* an object cut short does not parse.
IsProbablyJsonl(lines) ==
    LET lead(i) == Len(lines[i].src) - Len(LStrip(lines[i].src))
        inSample == {i \in DOMAIN lines :
                        /\ ~IsBlank(lines[i])
                        /\ LineStart(lines, i) + lead(i) < SampleLen}
    IN  /\ inSample # {}
        /\ LET i == Min(inSample)
               visible == SampleLen - LineStart(lines, i)
           IN  IF visible >= Len(lines[i].src)
               THEN Parses(lines[i])
               ELSE /\ lines[i].kind = "raw"
                    /\ IsJsonScalar(SubSeq(lines[i].src, 1, visible))

\* os.path.basename(args.inp), or "STDIN"; a path is its components
DocIdBase(inp) == IF inp \in {<<"-">>, <<>>} THEN "STDIN" ELSE inp[Len(inp)]

TextField == "text"
IdField == "doc_id"

\* not isinstance(text, str) or not text.strip()
SkipsText(fields) ==
    LET t == Get(fields, TextField, [str |-> TRUE, val |-> <<>>])
    IN  ~t.str \/ Strip(t.val) = <<>>

\* str(obj.get(id_field, f"{doc_id_base}#{line_no}")): line > 0 stands for
\* the suffix "#<line>"
DocIdOf(fields, base, n) ==
    IF IdField \in DOMAIN fields
    THEN [id |-> fields[IdField].val, line |-> 0]
    ELSE [id |-> base, line |-> n]

----------------------------------------------------------------------------
(* main *)

\* One output record; i is the sentence_id, line > 0 adds meta.jsonl_line.
OutRecord(rec, did, i, line) ==
    [doc_id |-> did,
     sentence_id |-> i,
     span |-> rec.span,
     sentence |-> rec.sentence,
     score |-> rec.score,
     labels |-> rec.labels,
     matched_patterns |-> rec.matched_patterns,
     meta |-> IF line > 0
              THEN [threshold |-> threshold, source |-> args.inp,
                    jsonl_line |-> line]
              ELSE [threshold |-> threshold, source |-> args.inp]]

\* re.compile(rx) does not raise: of the literals here, one with an
\* unbalanced parenthesis does not compile.
RxCompiles(rx) ==
    Cardinality({i \in DOMAIN rx : rx[i] = "("})
        = Cardinality({i \in DOMAIN rx : rx[i] = ")"})

\* load_cfg and compile_cfg return: the file holds JSON, the document has
\* the key patterns, every rx compiles.
ConfigLoads(pf) ==
    /\ pf.state = "ok"
    /\ "patterns" \in DOMAIN pf.doc
    /\ \A i \in DOMAIN pf.doc.patterns : RxCompiles(pf.doc.patterns[i].rx)

\* The pattern file is missing: main exits with status 2.
StartupMissing ==
    /\ pc = "start"
    /\ patfile.state = "missing"
    /\ pc' = "exit2"
    /\ UNCHANGED <<args, patfile, input, cfg, threshold, fmt, pos, line_no,
                   doc_id, text, offsets, scored, flagged, sid, sink, out>>

StartupInvalidAfterOpen ==
    /\ pc = "start"
    /\ patfile.state # "missing"
    /\ ~ConfigLoads(patfile)
    /\ sink' = "closed"
    /\ pc' = "crashed"
    /\ UNCHANGED <<args, patfile, input, cfg, threshold, fmt, pos, line_no,
                   doc_id, text, offsets, scored, flagged, sid, out>>

\* load_cfg or compile_cfg raises: the run ends with a traceback.
StartupInvalid ==
    /\ pc = "start"
    /\ patfile.state # "missing"
    /\ ~ConfigLoads(patfile)
    /\ pc' = "crashed"
    /\ UNCHANGED <<args, patfile, input, cfg, threshold, fmt, pos, line_no,
                   doc_id, text, offsets, scored, flagged, sid, sink, out>>

\* The configuration is compiled, the threshold settled, the sink opened.
StartupOk ==
    /\ pc = "start"
    /\ ConfigLoads(patfile)
    /\ cfg' = patfile.doc
    /\ threshold' = IF args.threshold.given
                    THEN args.threshold.val
                    ELSE Get(patfile.doc.meta, "default_threshold",
                             DefaultThreshold)
    /\ sink' = "open"
    /\ pc' = "read"
    /\ UNCHANGED <<args, patfile, input, fmt, pos, line_no, doc_id, text,
                   offsets, scored, flagged, sid, out>>

\* read_all and the choice of the format
ReadInput ==
    /\ pc = "read"
    /\ fmt' = IF args.fmt = "auto"
              THEN (IF IsProbablyJsonl(input) THEN "jsonl" ELSE "text")
              ELSE args.fmt
    /\ pc' = fmt'
    /\ UNCHANGED <<args, patfile, input, cfg, threshold, pos, line_no,
                   doc_id, text, offsets, scored, flagged, sid, sink, out>>

\* text mode: detect_sentences(raw, cfg, threshold)
TextDetect ==
    /\ pc = "text"
    /\ \E up \in BOOLEAN :
        LET raw == JoinLines(input)
        IN  /\ text' = raw
            /\ offsets' = SentenceOffsets(raw)
            /\ scored' = ScoreAll(cfg, SentenceOffsets(raw))
            /\ flagged' = DetectSentences(raw, cfg, threshold, up)
    /\ doc_id' = [id |-> DocIdBase(args.inp), line |-> 0]
    /\ sid' = 0
    /\ pc' = "emit_text"
    /\ UNCHANGED <<args, patfile, input, cfg, threshold, fmt, pos, line_no,
                   sink, out>>

\* The number enumerate(flagged, start=1) and sid += 1 give the next record.
NextSidAcrossDocuments(n) == Len(out) + 1

NextSid(n) == n + 1

\* text mode: one record is written
TextWrite ==
    /\ pc = "emit_text"
    /\ sid < Len(flagged)
    /\ sid' = NextSid(sid)
    /\ out' = Append(out, OutRecord(flagged[sid + 1], doc_id, NextSid(sid), 0))
    /\ UNCHANGED <<args, patfile, input, pc, cfg, threshold, fmt, pos,
                   line_no, doc_id, text, offsets, scored, flagged, sink>>

\* text mode: the loop is over, the sink is closed
TextDone ==
    /\ pc = "emit_text"
    /\ sid = Len(flagged)
    /\ sink' = "closed"
    /\ pc' = "exit0"
    /\ UNCHANGED <<args, patfile, input, cfg, threshold, fmt, pos, line_no,
                   doc_id, text, offsets, scored, flagged, sid, out>>

\* jsonl mode: main is at the head of the loop over iter_jsonl
AtLineLoop == pc = "jsonl" \/ (pc = "emit_jsonl" /\ sid = Len(flagged))

\* The lines iter_jsonl has not consumed and does not skip as blank.
Pending == {i \in (pos + 1) .. Len(input) : ~IsBlank(input[i])}

\* jsonl mode: the input is exhausted
JsonlDone ==
    /\ AtLineLoop
    /\ Pending = {}
    /\ pos' = Len(input)
    /\ sink' = "closed"
    /\ pc' = "exit0"
    /\ UNCHANGED <<args, patfile, input, cfg, threshold, fmt, line_no,
                   doc_id, text, offsets, scored, flagged, sid, out>>

JsonlFailSkips ==
    /\ AtLineLoop
    /\ Pending # {}
    /\ LET n == Min(Pending)
       IN  /\ ~(Parses(input[n]) /\ input[n].kind = "obj")
           /\ pos' = n
           /\ line_no' = IF Parses(input[n]) THEN line_no + 1 ELSE line_no
    /\ pc' = "jsonl"
    /\ UNCHANGED <<args, patfile, input, cfg, threshold, fmt, doc_id, text,
                   offsets, scored, flagged, sid, sink, out>>

\* jsonl mode: json.loads raises on the next line, or the value it returns
\* has no get method
JsonlFail ==
    /\ AtLineLoop
    /\ Pending # {}
    /\ LET n == Min(Pending)
       IN  /\ ~(Parses(input[n]) /\ input[n].kind = "obj")
           /\ pos' = n
           /\ line_no' = IF Parses(input[n]) THEN line_no + 1 ELSE line_no
    /\ sink' = "closed"
    /\ pc' = "crashed"
    /\ UNCHANGED <<args, patfile, input, cfg, threshold, fmt, doc_id, text,
                   offsets, scored, flagged, sid, out>>

JsonlSkipStops ==
    /\ AtLineLoop
    /\ Pending # {}
    /\ LET n == Min(Pending)
       IN  /\ input[n].kind = "obj"
           /\ SkipsText(input[n].fields)
           /\ pos' = n
    /\ line_no' = line_no + 1
    /\ sink' = "closed"
    /\ pc' = "exit0"
    /\ UNCHANGED <<args, patfile, input, cfg, threshold, fmt, doc_id, text,
                   offsets, scored, flagged, sid, out>>

\* jsonl mode: the next record has no usable text and is skipped
JsonlSkip ==
    /\ AtLineLoop
    /\ Pending # {}
    /\ LET n == Min(Pending)
       IN  /\ input[n].kind = "obj"
           /\ SkipsText(input[n].fields)
           /\ pos' = n
    /\ line_no' = line_no + 1
    /\ pc' = "jsonl"
    /\ UNCHANGED <<args, patfile, input, cfg, threshold, fmt, doc_id, text,
                   offsets, scored, flagged, sid, sink, out>>

JsonlDetectKeepsResults ==
    /\ AtLineLoop
    /\ Pending # {}
    /\ LET n == Min(Pending)
       IN  /\ input[n].kind = "obj"
           /\ ~SkipsText(input[n].fields)
           /\ pos' = n
           /\ doc_id' = DocIdOf(input[n].fields, DocIdBase(args.inp),
                                line_no + 1)
           /\ \E up \in BOOLEAN :
               LET t == input[n].fields[TextField].val
               IN  /\ text' = t
                   /\ offsets' = SentenceOffsets(t)
                   /\ scored' = ScoreAll(cfg, SentenceOffsets(t))
                   /\ flagged' = flagged \o DetectSentences(t, cfg, threshold, up)
    /\ line_no' = line_no + 1
    /\ sid' = 0
    /\ pc' = "emit_jsonl"
    /\ UNCHANGED <<args, patfile, input, cfg, threshold, fmt, sink, out>>

\* jsonl mode: detect_sentences on the next record's text
JsonlDetect ==
    /\ AtLineLoop
    /\ Pending # {}
    /\ LET n == Min(Pending)
       IN  /\ input[n].kind = "obj"
           /\ ~SkipsText(input[n].fields)
           /\ pos' = n
           /\ doc_id' = DocIdOf(input[n].fields, DocIdBase(args.inp),
                                line_no + 1)
           /\ \E up \in BOOLEAN :
               LET t == input[n].fields[TextField].val
               IN  /\ text' = t
                   /\ offsets' = SentenceOffsets(t)
                   /\ scored' = ScoreAll(cfg, SentenceOffsets(t))
                   /\ flagged' = DetectSentences(t, cfg, threshold, up)
    /\ line_no' = line_no + 1
    /\ sid' = 0
    /\ pc' = "emit_jsonl"
    /\ UNCHANGED <<args, patfile, input, cfg, threshold, fmt, sink, out>>

JsonlWriteAtFront ==
    /\ pc = "emit_jsonl"
    /\ sid < Len(flagged)
    /\ sid' = NextSid(sid)
    /\ out' = <<OutRecord(flagged[sid + 1], doc_id, NextSid(sid), line_no)>>
                  \o out
    /\ UNCHANGED <<args, patfile, input, pc, cfg, threshold, fmt, pos,
                   line_no, doc_id, text, offsets, scored, flagged, sink>>

\* jsonl mode: one record is written
JsonlWrite ==
    /\ pc = "emit_jsonl"
    /\ sid < Len(flagged)
    /\ sid' = NextSid(sid)
    /\ out' = Append(out, OutRecord(flagged[sid + 1], doc_id, NextSid(sid),
                                    line_no))
    /\ UNCHANGED <<args, patfile, input, pc, cfg, threshold, fmt, pos,
                   line_no, doc_id, text, offsets, scored, flagged, sink>>

\* The exit status of the process: 2 from sys.exit(2), 1 when an exception
\* ends the run, 0 when main returns; -1 while it runs.
ExitStatus ==
    IF pc = "exit0" THEN 0
    ELSE IF pc = "exit2" THEN 2
    ELSE IF pc = "crashed" THEN 1
    ELSE -1

Next ==
    \/ StartupMissing
    \/ StartupInvalid
    \/ StartupOk
    \/ ReadInput
    \/ TextDetect
    \/ TextWrite
    \/ TextDone
    \/ JsonlDone
    \/ JsonlFail
    \/ JsonlSkip
    \/ JsonlDetect
    \/ JsonlWrite

----------------------------------------------------------------------------
(* The inputs of a run *)

MaxLen == 5
MaxPatterns == 2
MaxLines == 2

Str(s) == [str |-> TRUE, val |-> s]

\* Every string of at most n characters of the alphabet
Strings(alphabet, n) == UNION {[1 .. k -> alphabet] : k \in 0 .. n}

Threshold(v) == [given |-> TRUE, val |-> v]
NoThreshold == [given |-> FALSE, val |-> 0]

Pattern(i, label, rx, weight) ==
    [id |-> i, label |-> label, rx |-> rx, weight |-> weight]

NoBoosts == [claiminess |-> 0, rhetorical_question |-> 0, max_score |-> 1000]

\* Scenario A of the specification
ScenarioACfg ==
    [patterns |-> <<Pattern("p1", <<"H","E","D","G","E">>,
                            <<"i"," ","t","h","i","n","k">>, 600)>>,
     claimy_words |-> <<>>,
     rhet_question_stems |-> <<>>,
     boosts |-> NoBoosts,
     meta |-> [default_threshold |-> 500]]

ScenarioAText ==
    <<"I"," ","t","h","i","n","k"," ","t","h","i","s"," ",
      "w","o","r","k","s","."," ",
      "I","t"," ","d","e","f","i","n","i","t","e","l","y"," ",
      "d","o","e","s",".">>

\* The configuration of the segmentation and jsonl runs: every sentence
\* with an a or an A in it is flagged.
BaseCfg ==
    [patterns |-> <<Pattern("p1", <<"H">>, <<"a">>, 600)>>,
     claimy_words |-> <<>>,
     rhet_question_stems |-> <<>>,
     boosts |-> NoBoosts,
     meta |-> [default_threshold |-> 500]]

PatFile(doc) == [state |-> "ok", doc |-> doc]

TextArgs == [fmt |-> "text", threshold |-> NoThreshold, inp |-> <<"-">>]

RawLine(src) == [kind |-> "raw", src |-> src]
ObjLine(fields) == [kind |-> "obj", fields |-> fields, src |-> JsonSrc(fields)]

\* Segmentation: every short text of a small alphabet, and every choice of
\* the characters around one whitespace run.
SegAlphabet == {" ", ".", "A", "a", "["}

BeforeRun == {".", "!", "?", "a", ","}
InRun == {<<" ">>, <<"\n">>, <<" ", "\t">>}
AfterRun == {"A", "Z", "a", "z", "0", "9", "\"", "(", "[", ")", "]", "'"}

RunTexts ==
    {<<"a", b>> \o w \o <<c, ".">> : b \in BeforeRun, w \in InRun, c \in AfterRun}

FixedTexts ==
    {ScenarioAText,
     <<" ", "A", ".", " ", "A", ".", " ", "A", ".", " ">>,
     <<"a", "?", " ", " ", "A", "a", "!", "\n", "A", ".", "\n">>}

SegInputs ==
    {[args |-> TextArgs, patfile |-> PatFile(BaseCfg), input |-> <<RawLine(t)>>] :
        t \in Strings(SegAlphabet, MaxLen) \cup RunTexts \cup FixedTexts}

ScenarioAInput ==
    [args |-> TextArgs, patfile |-> PatFile(ScenarioACfg),
     input |-> <<RawLine(ScenarioAText)>>]

\* Scoring: pattern libraries of up to MaxPatterns patterns, the regular
\* expression set by the position, with boosts, caps and thresholds.
RxAt(i) == IF i % 2 = 1 THEN <<"a">> ELSE <<"b">>

IdAt(i) == <<"p1", "p2", "p3", "p4">>[i]

\* The label and the weight of a pattern
PatternPool ==
    {[label |-> <<"H">>, weight |-> 600],
     [label |-> <<"H">>, weight |-> 496],
     [label |-> <<"D">>, weight |-> 700],
     [label |-> <<"D", "A">>, weight |-> 600]}

PatternLists ==
    UNION {{[i \in 1 .. k |-> Pattern(IdAt(i), lw[i].label, RxAt(i), lw[i].weight)] :
               lw \in [1 .. k -> PatternPool]} :
           k \in 0 .. MaxPatterns}

BoostPool ==
    {NoBoosts,
     [claiminess |-> 300, rhetorical_question |-> 500, max_score |-> 1000],
     [claiminess |-> 300, rhetorical_question |-> 500, max_score |-> 996],
     [claiminess |-> 300]}

WordPool ==
    {[claimy |-> <<>>, stems |-> <<>>],
     [claimy |-> <<<<"c">>>>, stems |-> <<<<"a">>, <<"c">>>>]}

ThresholdPool == {NoThreshold, Threshold(0), Threshold(502), Threshold(-100)}

ScoreCfgs ==
    {[patterns |-> ps, claimy_words |-> w.claimy,
      rhet_question_stems |-> w.stems, boosts |-> b,
      meta |-> [default_threshold |-> 500]] :
        ps \in PatternLists, w \in WordPool, b \in BoostPool}

ScoreTexts ==
    {<<"a", "?">>, <<"a", "b", "?">>, <<"c", "?">>, <<"A", " ", "a", ".">>,
     <<"B", " ", "C", ".">>}

ScoreInputs ==
    {[args |-> [fmt |-> "text", threshold |-> th, inp |-> <<"-">>],
      patfile |-> PatFile(c), input |-> <<RawLine(t)>>] :
        th \in ThresholdPool, c \in ScoreCfgs, t \in ScoreTexts}

\* Records: files of up to MaxLines lines.
LinePool ==
    {RawLine(<<>>),
     RawLine(<<"7">>),
     RawLine(<<"a", ".">>),
     ObjLine([text |-> Str(<<"B", ".", " ", "A", ".", " ", "B", ".", " ", "A", ".">>)]),
     ObjLine([text |-> Str(<<"b", ".">>)]),
     ObjLine([text |-> Str(<<"a", ".">>), doc_id |-> Str(<<"d", "1">>)]),
     ObjLine([doc_id |-> Str(<<"d", "1">>)]),
     ObjLine([text |-> [str |-> FALSE, val |-> <<>>]]),
     ObjLine([text |-> Str(<<" ">>)])}

Files == UNION {[1 .. k -> LinePool] : k \in 0 .. MaxLines}

FileInputs ==
    {[args |-> [fmt |-> f, threshold |-> NoThreshold, inp |-> p],
      patfile |-> PatFile(BaseCfg), input |-> lines] :
        f \in {"auto", "text", "jsonl"},
        p \in {<<"-">>, <<"data", "in.jsonl">>},
        lines \in Files}

\* Scenario B of the specification: the file {"text":"I think so."}
ScenarioBInput ==
    [args |-> [fmt |-> "auto", threshold |-> NoThreshold, inp |-> <<"-">>],
     patfile |-> PatFile(ScenarioACfg),
     input |-> <<ObjLine([text |-> Str(<<"I"," ","t","h","i","n","k"," ",
                                        "s","o",".">>)])>>]

\* A pattern file that is missing or does not load
NoPatternsDoc ==
    [claimy_words |-> <<>>, rhet_question_stems |-> <<>>,
     boosts |-> NoBoosts, meta |-> [default_threshold |-> 500]]

BadRxDoc ==
    [patterns |-> <<Pattern("p1", <<"H">>, <<"a">>, 600),
                    Pattern("p2", <<"H">>, <<"(">>, 600)>>,
     claimy_words |-> <<>>, rhet_question_stems |-> <<>>,
     boosts |-> NoBoosts, meta |-> [default_threshold |-> 500]]

BadPatFileInputs ==
    {[args |-> [fmt |-> f, threshold |-> NoThreshold, inp |-> <<"-">>],
      patfile |-> pf,
      input |-> <<ObjLine([text |-> Str(<<"a", ".">>)])>>] :
        f \in {"auto", "text", "jsonl"},
        pf \in {[state |-> "missing", doc |-> BaseCfg],
                [state |-> "badjson", doc |-> BaseCfg],
                PatFile(NoPatternsDoc),
                PatFile(BadRxDoc)}}

Inputs == SegInputs \cup {ScenarioAInput, ScenarioBInput} \cup ScoreInputs \cup FileInputs \cup BadPatFileInputs

\* The state when main is entered on input i
Start(i) ==
    /\ args = i.args
    /\ patfile = i.patfile
    /\ input = i.input
    /\ pc = "start"
    /\ cfg = [patterns |-> <<>>, claimy_words |-> <<>>,
              rhet_question_stems |-> <<>>, boosts |-> NoBoosts,
              meta |-> [default_threshold |-> 0]]
    /\ threshold = 0
    /\ fmt = "auto"
    /\ pos = 0
    /\ line_no = 0
    /\ doc_id = [id |-> "", line |-> 0]
    /\ text = <<>>
    /\ offsets = <<>>
    /\ scored = <<>>
    /\ flagged = <<>>
    /\ sid = 0
    /\ sink = "unopened"
    /\ out = <<>>

Init == \E i \in Inputs : Start(i)

Spec == Init /\ [][Next]_vars

\* The runs on a pattern file that does not load, and the runs of the
\* auto format on the standard input
StartupInputs ==
    BadPatFileInputs
        \cup {i \in FileInputs : i.args.fmt = "auto" /\ i.args.inp = <<"-">>}

StartupInit == \E i \in StartupInputs : Start(i)

\* main is one sequential process: a step of the startup, of the reading
\* and of the writing that can be taken is taken.
FairSpec ==
    /\ StartupInit
    /\ [][Next]_vars
    /\ WF_vars(StartupMissing \/ StartupInvalid \/ StartupOk \/ ReadInput)
    /\ WF_vars(TextWrite \/ TextDone)
    /\ WF_vars(JsonlDone \/ JsonlFail \/ JsonlSkip \/ JsonlWrite)

----------------------------------------------------------------------------
(* Properties of detect_sentences *)

\* detect_sentences has run on text
Detected == pc \in {"emit_text", "emit_jsonl"}

\* The sentence offsets[i] was appended to results
IsEmitted(i) ==
    \E j \in DOMAIN flagged : flagged[j].span.start = offsets[i].start

\* C1: for every record detect_sentences returns, the slice of the
\* original, untrimmed text from span.start to span.end is the record's
\* sentence.
C1_SpanSlicesSentence ==
    \A i \in DOMAIN flagged :
        Slice(text, flagged[i].span.start, flagged[i].span.end)
            = flagged[i].sentence

\* C1 witness: a text with leading and trailing whitespace in which the
\* same sentence is flagged twice.
C1_Witness ==
    /\ Detected
    /\ Len(flagged) >= 2
    /\ flagged[1].sentence = flagged[2].sentence
    /\ IsSpace(text[1]) /\ IsSpace(text[Len(text)])

\* C2: the spans of one document lie within the text, are not empty, and
\* each starts at or after the end of the one before; a text that is empty
\* or all whitespace has no spans.
C2_SpansOrdered ==
    /\ \A i \in DOMAIN offsets :
        /\ 0 <= offsets[i].start
        /\ offsets[i].start < offsets[i].end
        /\ offsets[i].end <= Len(text)
    /\ \A i \in DOMAIN offsets :
        i > 1 => /\ offsets[i].start >= offsets[i - 1].end
                 /\ offsets[i].start > offsets[i - 1].start
    /\ \A i, j \in DOMAIN offsets :
        i < j => offsets[i].end <= offsets[j].start
    /\ Strip(text) = <<>> => offsets = <<>>

\* C2 witness: three spans of the same sentence text.
C2_Witness ==
    /\ Detected
    /\ Len(offsets) = 3
    /\ offsets[1].sent = offsets[2].sent
    /\ offsets[2].sent = offsets[3].sent

\* The score field and the emission test, as C3 states them: the capped
\* score rounded to 2 decimals against the threshold.
C3_RoundedReaches(i) ==
    \A up \in BOOLEAN : Round2(scored[i].score, up) >= threshold

\* C3: a sentence with a matched pattern is emitted if and only if its
\* capped score, rounded to 2 decimals, is >= the threshold, and no
\* emitted record has a score below the threshold.
C3_EmittedIffRoundedReaches ==
    /\ \A i \in DOMAIN scored :
        scored[i].matched # <<>> => (IsEmitted(i) <=> C3_RoundedReaches(i))
    /\ \A j \in DOMAIN flagged : flagged[j].score >= threshold

\* C4: the score of every emitted record is <= boosts.max_score.
C4_ScoreAtMostMax ==
    \A j \in DOMAIN flagged :
        flagged[j].score <= Get(cfg.boosts, "max_score", DefaultMaxScore)

\* C5: a sentence that matches no pattern is never emitted, whatever the
\* threshold and the boosts; a document none of whose sentences matches
\* yields no record, and every record has a matched pattern.
C5_NoMatchNoRecord ==
    /\ \A i \in DOMAIN scored : scored[i].matched = <<>> => ~IsEmitted(i)
    /\ (\A i \in DOMAIN scored : scored[i].matched = <<>>) => flagged = <<>>
    /\ \A j \in DOMAIN flagged : flagged[j].matched_patterns # <<>>
    /\ \A j \in DOMAIN out : out[j].matched_patterns # <<>>

\* C5 witness: a sentence that matches no pattern and whose boosts alone
\* reach the threshold.
C5_Witness ==
    /\ Detected
    /\ Len(scored) = 1
    /\ scored[1].matched = <<>>
    /\ scored[1].score > 0
    /\ scored[1].score >= threshold
    /\ flagged = <<>>

\* The literal rx occurs in s, case ignored.
OccursIn(rx, s) ==
    \E a \in 0 .. (Len(s) - Len(rx)) :
        \A k \in 1 .. Len(rx) : LowerChar(s[a + k]) = LowerChar(rx[k])

\* The positions of the patterns of the library that match the sentence
MatchingPatterns(sent) ==
    {k \in DOMAIN cfg.patterns : OccursIn(cfg.patterns[k].rx, Lower(sent))}

RECURSIVE SumWeights(_)
SumWeights(K) ==
    IF K = {} THEN 0
    ELSE LET k == CHOOSE x \in K : TRUE
         IN  cfg.patterns[k].weight + SumWeights(K \ {k})

\* The stem st is a prefix of the sentence, case ignored
StemIsPrefix(st, sent) ==
    /\ Len(st) <= Len(sent)
    /\ \A k \in 1 .. Len(st) : LowerChar(sent[k]) = LowerChar(st[k])

\* A word character on exactly one side of the end of the prefix st
BoundaryFollows(st, sent) ==
    (Len(st) >= 1 /\ IsWord(sent[Len(st)]))
        # (Len(st) < Len(sent) /\ IsWord(sent[Len(st) + 1]))

\* W + C + R of C6; needsBoundary says whether a stem matches only when a
\* word boundary follows it
ExpectedScore(sent, needsBoundary) ==
    LET W == SumWeights(MatchingPatterns(sent))
        C == IF /\ cfg.claimy_words # <<>>
                /\ \E i \in DOMAIN cfg.claimy_words :
                       OccursIn(cfg.claimy_words[i], sent)
             THEN Get(cfg.boosts, "claiminess", 0) ELSE 0
        R == IF /\ sent[Len(sent)] = "?"
                /\ cfg.rhet_question_stems # <<>>
                /\ \E i \in DOMAIN cfg.rhet_question_stems :
                       /\ StemIsPrefix(cfg.rhet_question_stems[i], sent)
                       /\ needsBoundary =>
                              BoundaryFollows(cfg.rhet_question_stems[i], sent)
             THEN Get(cfg.boosts, "rhetorical_question", 0) ELSE 0
    IN  W + C + R

\* C6 as stated: the score before rounding is min(max_score, W + C + R):
\* W the sum of the weights of the patterns that match the lowercased
\* sentence, each once; C the claiminess boost if the claimy list is not
\* empty and a claimy word matches; R the rhetorical boost if the sentence
\* ends with ? and the stem list is not empty and a stem matches at its
\* start.
C6_ScoreIsCappedSumAnyStem ==
    \A i \in DOMAIN scored :
        scored[i].score
            = Min({Get(cfg.boosts, "max_score", 1000),
                   ExpectedScore(offsets[i].sent, FALSE)})

\* C6 amended: as stated, with R the rhetorical boost if the sentence ends
\* with ? and the stem list is not empty and a stem matches at its start
\* and a word boundary follows the stem.
C6_ScoreIsCappedSum ==
    \A i \in DOMAIN scored :
        scored[i].score
            = Min({Get(cfg.boosts, "max_score", 1000),
                   ExpectedScore(offsets[i].sent, TRUE)})

\* C6 witness: two matching patterns of weights 0.7 and 0.6 under
\* max_score 1.0 give 1.0.
C6_Witness ==
    /\ Detected
    /\ Len(scored) = 1
    /\ Len(scored[1].matched) = 2
    /\ {cfg.patterns[k].weight : k \in DOMAIN cfg.patterns} = {700, 600}
    /\ Get(cfg.boosts, "max_score", 1000) = 1000
    /\ scored[1].score = 1000

\* The whitespace runs strictly inside the trimmed text, as pairs of
\* 0-based offsets (first character of the run, first after it)
InnerRuns ==
    {r \in (1 .. Len(text)) \X (1 .. Len(text)) :
        /\ r[1] < r[2]
        /\ r[2] < Len(text)
        /\ \A k \in (r[1] + 1) .. r[2] : IsSpace(text[k])
        /\ ~IsSpace(text[r[1]])
        /\ ~IsSpace(text[r[2] + 1])}

\* A sentence ends where the run r starts and the next starts where it ends
SplitsAt(r) ==
    \E k \in 1 .. (Len(offsets) - 1) :
        offsets[k].end = r[1] /\ offsets[k + 1].start = r[2]

\* Sentences are separated by whitespace runs only
BoundariesAreRuns ==
    \A k \in 1 .. (Len(offsets) - 1) :
        <<offsets[k].end, offsets[k + 1].start>> \in InnerRuns

\* C7 as stated: a run of whitespace is a sentence boundary if and only if
\* it follows ., ! or ? and precedes an uppercase letter, a digit, a
\* quotation mark or an opening parenthesis; before any other character,
\* an opening square bracket included, it never splits.
C7_SplitsIffNoBracket ==
    /\ BoundariesAreRuns
    /\ \A r \in InnerRuns :
        SplitsAt(r) <=> /\ text[r[1]] \in {".", "!", "?"}
                        /\ text[r[2] + 1] \in BoundaryStartNoBracket

\* C7 amended: a run of whitespace is a sentence boundary if and only if
\* it follows ., ! or ? and precedes an uppercase letter, a digit, a
\* quotation mark, an opening parenthesis or an opening square bracket.
C7_SplitsIff ==
    /\ BoundariesAreRuns
    /\ \A r \in InnerRuns :
        SplitsAt(r) <=> /\ text[r[1]] \in {".", "!", "?"}
                        /\ text[r[2] + 1] \in BoundaryStartNoBracket \cup {"["}

\* C7 witness: a boundary before an opening square bracket.
C7_Witness ==
    /\ Detected
    /\ \E r \in InnerRuns : SplitsAt(r) /\ text[r[2] + 1] = "["

\* The k-th pattern position of K in declaration order
NthOf(K, n) == CHOOSE k \in K : Cardinality({m \in K : m <= k}) = n

\* C8: matched_patterns lists the patterns that match the sentence, one
\* entry each, in declaration order; labels is the set of their labels, in
\* ascending order without duplicates.
C8_MatchedAndLabels ==
    \A j \in DOMAIN flagged :
        LET mp == flagged[j].matched_patterns
            ls == flagged[j].labels
            K  == MatchingPatterns(flagged[j].sentence)
        IN  /\ Len(mp) = Cardinality(K)
            /\ \A n \in DOMAIN mp :
                mp[n] = [id |-> cfg.patterns[NthOf(K, n)].id,
                         label |-> cfg.patterns[NthOf(K, n)].label]
            /\ Range(ls) = {mp[n].label : n \in DOMAIN mp}
            /\ \A a, b \in DOMAIN ls : a < b => LexLess(ls[a], ls[b])

\* C8 witness: a record whose two matched patterns carry one label.
C8_Witness ==
    /\ Detected
    /\ \E j \in DOMAIN flagged :
        /\ Len(flagged[j].matched_patterns) = 2
        /\ Len(flagged[j].labels) = 1

\* A run of scenario A has reached the end of detect_sentences
ScenarioADetected ==
    /\ pc = "emit_text"
    /\ patfile.doc = ScenarioACfg
    /\ threshold = 500
    /\ text = ScenarioAText

ScenarioARecord(end) ==
    [span |-> [start |-> 0, end |-> end],
     sentence |-> <<"I"," ","t","h","i","n","k"," ","t","h","i","s"," ",
                    "w","o","r","k","s",".">>,
     score |-> 600,
     labels |-> << <<"H","E","D","G","E">> >>,
     matched_patterns |-> <<[id |-> "p1", label |-> <<"H","E","D","G","E">>]>>]

\* C9 as stated: scenario A yields exactly one record, the sentence
\* "I think this works." with span (0, 20), score 0.6, labels ["HEDGE"].
C9_ScenarioASpan20 ==
    ScenarioADetected => flagged = <<ScenarioARecord(20)>>

\* C9 amended: scenario A yields exactly one record, the sentence
\* "I think this works." with span (0, 19), score 0.6, labels ["HEDGE"].
C9_ScenarioA ==
    ScenarioADetected => flagged = <<ScenarioARecord(19)>>

\* C9 witness: scenario A has run.
C9_Witness == ScenarioADetected /\ Len(flagged) = 1

----------------------------------------------------------------------------
(* Properties of main *)

\* Two records of the output belong to one document
SameDoc(a, b) == a.meta = b.meta /\ a.doc_id = b.doc_id

\* C10: within one document the sentence_id values are 1, 2, ..., k in
\* emission order, by increasing span.start, counting flagged sentences
\* only; the numbering restarts at 1 for every document.
C10_SentenceIds ==
    /\ \A i \in DOMAIN out :
        IF i > 1 /\ SameDoc(out[i - 1], out[i])
        THEN /\ out[i].sentence_id = out[i - 1].sentence_id + 1
             /\ out[i].span.start > out[i - 1].span.start
        ELSE out[i].sentence_id = 1
    /\ Detected =>
        /\ sid <= Len(out)
        /\ \A n \in 1 .. sid :
            /\ out[Len(out) - sid + n].sentence_id = n
            /\ out[Len(out) - sid + n].span = flagged[n].span

\* C10 witness: the second document's first record, numbered 1 after two
\* records of the first document, for a flagged sentence that is not the
\* first sentence of its document.
C10_Witness ==
    /\ Len(out) = 4
    /\ out[1].sentence_id = 1
    /\ out[1].span.start > 0
    /\ out[2].sentence_id = 2
    /\ out[3].sentence_id = 1
    /\ out[4].sentence_id = 2
    /\ ~SameDoc(out[2], out[3])

----------------------------------------------------------------------------
(* jsonl mode: line numbers *)

\* The record being emitted was read from line pos of the input.
InJsonlRecord == fmt = "jsonl" /\ pc = "emit_jsonl"

\* C11: in jsonl mode a record without an id field gets the doc_id
\* "<base>#<n>" with n the 1-based number of its line in the input, and
\* meta.jsonl_line of every record written for that line is the same n,
\* whatever blank lines or skipped records come before it.
C11_TrueLineNumbers ==
    InJsonlRecord =>
        /\ line_no = pos
        /\ IdField \notin DOMAIN input[pos].fields =>
               doc_id = [id |-> DocIdBase(args.inp), line |-> pos]
        /\ sid <= Len(out)
        /\ \A n \in 1 .. sid :
               out[Len(out) - sid + n].meta.jsonl_line = pos

----------------------------------------------------------------------------
(* jsonl mode: malformed lines and skipped records *)

\* Line i is not blank and json.loads raises on it.
Malformed(i) == ~IsBlank(input[i]) /\ ~Parses(input[i])

\* C12: in jsonl mode, forced or detected, a non-blank line that does not
\* parse ends the run with the error: the run never moves past such a line,
\* the step that reads it writes nothing, and no step follows the failure.
C12_MalformedIsFatal ==
    [][/\ pc # "crashed"
       /\ \A i \in 1 .. pos' :
              Malformed(i) => /\ pc' = "crashed"
                              /\ pos' = i
                              /\ out' = out]_vars

\* C12 witness: a forced jsonl run has failed on a malformed first line
\* with a usable record behind it, and nothing was written.
C12_Witness ==
    /\ args.fmt = "jsonl"
    /\ pc = "crashed"
    /\ pos = 1
    /\ Malformed(1)
    /\ Len(input) = 2
    /\ input[2].kind = "obj"
    /\ ~SkipsText(input[2].fields)
    /\ out = <<>>

\* The value of line_no when main handles line i of lines: the lines up to
\* i that iter_jsonl yields.
LineNoAt(lines, i) == Cardinality({j \in 1 .. i : ~IsBlank(lines[j])})

\* A record main skips for its text, and a record it runs the detector on
Skippable(line) == line.kind = "obj" /\ SkipsText(line.fields)
Usable(line) == line.kind = "obj" /\ ~SkipsText(line.fields)

\* The records main writes for line i of lines
DocRecords(lines, i, up) ==
    LET fl == DetectSentences(lines[i].fields[TextField].val, cfg,
                              threshold, up)
        n == LineNoAt(lines, i)
        did == DocIdOf(lines[i].fields, DocIdBase(args.inp), n)
    IN  [k \in 1 .. Len(fl) |-> OutRecord(fl[k], did, k, n)]

\* The records main writes for the lines 1 .. k of lines
RECURSIVE RecordsUpTo(_, _, _)
RecordsUpTo(lines, k, up) ==
    IF k = 0 THEN <<>>
    ELSE RecordsUpTo(lines, k - 1, up)
             \o (IF Usable(lines[k]) THEN DocRecords(lines, k, up)
                 ELSE <<>>)

\* A record without what depends on the number of its line
Unnumbered(r) ==
    [doc |-> r.doc_id.id,
     sentence_id |-> r.sentence_id,
     span |-> r.span,
     sentence |-> r.sentence,
     score |-> r.score,
     labels |-> r.labels,
     matched_patterns |-> r.matched_patterns,
     threshold |-> r.meta.threshold,
     source |-> r.meta.source]

UnnumberedAll(recs) == [k \in DOMAIN recs |-> Unnumbered(recs[k])]

\* The input without the records that are skipped for their text
WithoutSkipped(lines) == SelectSeq(lines, LAMBDA l : ~Skippable(l))

\* C13: in jsonl mode a record whose text is missing, not a string, empty
\* or whitespace produces no output and no failure: the run fails only on
\* lines that are not such records, a run that ends normally has read every
\* line, and between two documents the output is, apart from line numbers,
\* the output for the same lines with the skipped records taken out.
C13_SkippedRecordsLeaveNoTrace ==
    fmt = "jsonl" =>
        /\ pc = "crashed" => ~Skippable(input[pos])
        /\ pc = "exit0" => pos = Len(input)
        /\ (AtLineLoop \/ pc \in {"exit0", "crashed"}) =>
               LET kept == WithoutSkipped(SubSeq(input, 1, pos))
               IN  \E up \in BOOLEAN :
                       UnnumberedAll(out)
                           = UnnumberedAll(RecordsUpTo(kept, Len(kept), up))

\* C13 witness: a run has ended normally with records written for the
\* second line after it skipped the first.
C13_Witness ==
    /\ fmt = "jsonl"
    /\ pc = "exit0"
    /\ Len(input) = 2
    /\ Skippable(input[1])
    /\ Usable(input[2])
    /\ out # <<>>

----------------------------------------------------------------------------
(* The choice of the format *)

\* main has chosen the format of the input.
FormatChosen == pc \notin {"start", "read", "exit2"} /\ sink # "unopened"

\* The input fits in the sample is_probably_jsonl is given.
FitsSample == Len(JoinLines(input)) <= SampleLen

\* The first line of the input, and its first line that is not blank,
\* parse as JSON values.
FirstLineIsJson == input # <<>> /\ Parses(input[1])

FirstNonBlankLineIsJson ==
    \E i \in DOMAIN input :
        /\ \A j \in 1 .. (i - 1) : IsBlank(input[j])
        /\ ~IsBlank(input[i])
        /\ Parses(input[i])

\* What C14 has in common with its amended form: an explicit format is
\* kept, auto chooses one of the two formats and chooses text for an empty
\* or whitespace-only input, and Scenario B is detected as jsonl.
FormatBasics ==
    /\ args.fmt # "auto" => fmt = args.fmt
    /\ fmt \in {"text", "jsonl"}
    /\ (args.fmt = "auto" /\ \A i \in DOMAIN input : IsBlank(input[i]))
           => fmt = "text"
    /\ (args.fmt = "auto" /\ input = ScenarioBInput.input) => fmt = "jsonl"

\* C14 as stated: with --format auto an input within the sample is handled
\* as jsonl if and only if its first line parses as a JSON value.
C14_FirstLineDecides ==
    (FormatChosen /\ FitsSample) =>
        /\ FormatBasics
        /\ args.fmt = "auto" => (fmt = "jsonl" <=> FirstLineIsJson)

\* C14, amended: with --format auto an input within the sample is handled
\* as jsonl if and only if its first line that is not blank parses as a
\* JSON value, and as text otherwise; an empty or whitespace-only input is
\* text, Scenario B is jsonl, and an explicit format is never overridden.
C14_FirstNonBlankLineDecides ==
    (FormatChosen /\ FitsSample) =>
        /\ FormatBasics
        /\ args.fmt = "auto" => (fmt = "jsonl" <=> FirstNonBlankLineIsJson)

\* C14 witness: auto has chosen jsonl for an input whose first line is
\* blank and whose second line is a JSON object, and the run has ended.
C14_Witness ==
    /\ args.fmt = "auto"
    /\ fmt = "jsonl"
    /\ pc = "exit0"
    /\ Len(input) = 2
    /\ IsBlank(input[1])
    /\ input[2].kind = "obj"

----------------------------------------------------------------------------
(* Pattern-file failures *)

\* Nothing of the input has been read, the sink has not been opened or
\* truncated, nothing has been written.
NothingTouched ==
    /\ sink = "unopened"
    /\ out = <<>>
    /\ fmt = "auto"
    /\ pos = 0
    /\ text = <<>>

\* C15: when the pattern file is not found, is not JSON, has no patterns
\* key or has an rx that does not compile, the run ends with a nonzero exit
\* status, 2 exactly when the file is not found, and at no moment of the
\* run is the input read, the sink opened or a record written.
C15_PatternFailureAbortsFirst ==
    /\ [](~ConfigLoads(patfile) =>
            /\ NothingTouched
            /\ pc \in {"start", "exit2", "crashed"}
            /\ pc # "start" =>
                   /\ ExitStatus > 0
                   /\ ExitStatus = 2 <=> patfile.state = "missing")
    /\ (~ConfigLoads(patfile) ~> ExitStatus > 0)

\* C15 witness: a run has ended with status 1 on a pattern file with an rx
\* that does not compile, with nothing touched.
C15_Witness ==
    /\ patfile.state = "ok"
    /\ "patterns" \in DOMAIN patfile.doc
    /\ ~ConfigLoads(patfile)
    /\ ExitStatus = 1
    /\ NothingTouched

----------------------------------------------------------------------------
(* Repeated calls of detect_sentences *)

\* The records written for line i of the input, in the order written
RecordsOfLine(i) ==
    SelectSeq(out, LAMBDA r : r.meta.jsonl_line = LineNoAt(input, i))

\* What detect_sentences returned for a record
Returned(r) ==
    [span |-> r.span,
     sentence |-> r.sentence,
     score |-> r.score,
     labels |-> r.labels,
     matched_patterns |-> r.matched_patterns]

ReturnedAll(recs) == [k \in DOMAIN recs |-> Returned(recs[k])]

\* Lines i and j are records with the same usable text.
SameText(i, j) ==
    /\ Usable(input[i])
    /\ Usable(input[j])
    /\ input[i].fields[TextField] = input[j].fields[TextField]

\* C16: detect_sentences leaves the compiled configuration as main loaded
\* it, what a call returns is what the detector gives for its text, that
\* configuration and the threshold whatever was processed before, and two
\* calls on the same text in one run return the same records in the same
\* order.
C16_CallsAreIndependent ==
    /\ pc \notin {"start", "exit2", "crashed"} => cfg = patfile.doc
    /\ Detected =>
           \E up \in BOOLEAN :
               flagged = DetectSentences(text, patfile.doc, threshold, up)
    /\ (fmt = "jsonl" /\ pc = "exit0") =>
           \A i, j \in DOMAIN input :
               (i < j /\ SameText(i, j)) =>
                   ReturnedAll(RecordsOfLine(i)) = ReturnedAll(RecordsOfLine(j))

\* C16 witness: a run has ended after two calls on the same text that
\* each returned two records, the second call after a different document
\* or right after the first.
C16_Witness ==
    /\ fmt = "jsonl"
    /\ pc = "exit0"
    /\ Len(input) = 2
    /\ SameText(1, 2)
    /\ Len(out) = 4
    /\ Returned(out[1]) = Returned(out[3])
    /\ Returned(out[2]) = Returned(out[4])

----------------------------------------------------------------------------
(* jsonl mode: JSON values that are not objects *)

\* C17: in jsonl mode a non-blank line that parses as a JSON value never
\* fails the run, whether the value is an object or not: a run that has
\* failed has failed on a line that does not parse.
C17_ValidJsonNeverFails ==
    (fmt = "jsonl" /\ pc = "crashed") => Malformed(pos)

----------------------------------------------------------------------------
(* detect_sentences: the search for a fragment *)

\* The cursor when fragment i is searched for: the end of the fragment
\* before it, 0 for the first.
CursorAt(i) == IF i = 1 THEN 0 ELSE offsets[i - 1].end

\* C18: text.find never returns -1 for a fragment, so the fallback
\* idx = start is never taken, and the position it returns is the
\* fragment's true one: only whitespace lies between the cursor and it, it
\* starts with a character that is not whitespace, the text reads the
\* fragment there, and only whitespace follows the last fragment; this
\* includes repeated and adjacent equal sentences.
C18_FragmentFoundInPlace ==
    Detected =>
        /\ \A i \in DOMAIN offsets :
               /\ offsets[i].found # -1
               /\ offsets[i].start = offsets[i].found
               /\ offsets[i].start >= CursorAt(i)
               /\ \A k \in (CursorAt(i) + 1) .. offsets[i].start :
                      IsSpace(text[k])
               /\ ~IsSpace(text[offsets[i].start + 1])
               /\ Slice(text, offsets[i].start, offsets[i].end)
                      = offsets[i].sent
        /\ offsets # <<>> =>
               \A k \in (offsets[Len(offsets)].end + 1) .. Len(text) :
                   IsSpace(text[k])

\* C18 witness: two equal sentences next to each other, the second found
\* one whitespace character after the end of the first.
C18_Witness ==
    /\ Detected
    /\ Len(offsets) = 2
    /\ offsets[1].sent = offsets[2].sent
    /\ offsets[2].found = offsets[1].end + 1
    /\ offsets[2].end = Len(text)

----------------------------------------------------------------------------
(* The order of the output *)

IsPrefix(a, b) == Len(a) <= Len(b) /\ SubSeq(b, 1, Len(a)) = a

\* jsonl mode: the records of the lines before the current one, then the
\* first sid records of the current line while it is being written.
WrittenJsonl(up) ==
    IF pc = "emit_jsonl"
    THEN RecordsUpTo(input, pos - 1, up)
             \o SubSeq(DocRecords(input, pos, up), 1, sid)
    ELSE RecordsUpTo(input, pos, up)

\* text mode: the first sid records of the one document
WrittenText ==
    [k \in 1 .. sid |->
        OutRecord(flagged[k], [id |-> DocIdBase(args.inp), line |-> 0], k, 0)]

\* The records written are those of an initial segment of the documents,
\* and within a document they are in the order of their spans.
WrittenSoFar ==
    /\ pc \in {"start", "read", "text", "exit2"} => out = <<>>
    /\ (fmt = "text" /\ pc \in {"emit_text", "exit0"}) => out = WrittenText
    /\ (fmt = "jsonl" /\ pc \in {"jsonl", "emit_jsonl", "exit0", "crashed"})
           => \E up \in BOOLEAN : out = WrittenJsonl(up)
    /\ \A i \in DOMAIN out :
           (i > 1 /\ SameDoc(out[i - 1], out[i]))
               => out[i - 1].span.start < out[i].span.start

\* C19: a step only appends to the output, and at every moment the output
\* is the records of an initial segment of the input documents in input
\* order; a run that has failed on a malformed jsonl line has written all
\* the records of the lines before it and none of a later line.
C19_OutputIsPrefix == []WrittenSoFar /\ [][IsPrefix(out, out')]_vars

\* C19 witness: a jsonl run has failed on a malformed second line with the
\* two records of the first line written.
C19_Witness ==
    /\ fmt = "jsonl"
    /\ pc = "crashed"
    /\ pos = 2
    /\ Malformed(2)
    /\ Usable(input[1])
    /\ Len(out) = 2
    /\ out[1].meta.jsonl_line = 1
    /\ out[2].meta.jsonl_line = 1

====
